---- MODULE Spec2Model ----
(***************************************************************************)
(* Multi-provider LLM orchestration layer of Human-first-seo:              *)
(*   - BaseAPIClient and the provider clients built on it (cache, rate     *)
(*     limit gate, config validation, retry with backoff, envelopes);      *)
(*   - LLMRouter (priority fallback over provider runtime state);          *)
(*   - the competitor-analysis route (fan-out, merge, confidence);         *)
(*   - the content endpoints (analyze, enhance) built on the router;       *)
(*   - the health endpoints.                                               *)
(* Time is counted in seconds, backoff delays in milliseconds.             *)
(***************************************************************************)
EXTENDS Integers, Sequences, FiniteSets, TLC

VARIABLES
    now,        \* Date.now(), in seconds
    ticks,      \* number of clock advances taken so far (bounds the exploration)
    env,        \* process.env: the set of environment variables that are set
    cache,      \* per client: NodeCache contents, key -> [v, t]
    limiter,    \* per client: RateLimiterMemory record for the provider key
    calls,      \* per call slot: one invocation of a client operation
    lastOk,     \* history: per client, key -> the last non-cached success stored
    asked,      \* history: per client, the quota window and the requests it was asked
    route,      \* the competitor-analysis POST handler in flight
    served,     \* number of POST requests answered so far
    providers,  \* LLMRouter.providers: name -> [priority, available, lastError]
    currentProvider, \* LLMRouter.currentProvider (a provider name)
    gens,       \* per slot: one LLMRouter.generateContent call
    genLog,     \* history: the generateContent call that ended last
    handlers,   \* per content endpoint: its POST handler in flight
    health,     \* the last answer of a health endpoint (GET)
    scoring     \* the scores the content analysis builds from a provider's analysis

vars == <<now, ticks, env, cache, limiter, calls, lastOk, asked, route, served,
          providers, currentProvider, gens, genLog, handlers, health, scoring>>

clientVars == <<cache, limiter, calls, lastOk, asked>>
routeVars == <<route, served>>
routerVars == <<providers, currentProvider, gens, genLog>>
endpointVars == <<handlers, health, scoring>>

----------------------------------------------------------------------------
\* Bounds of the exploration

\* clock advances explored
MaxTicks == 1
\* API_RATE_LIMIT: the configured quota N of requests per window
RateLimitRequests == 2
\* POST requests to the competitor-analysis route explored
MaxServed == 2
\* requests past the quota explored in one window
MaxOverQuota == 1

----------------------------------------------------------------------------
\* Program constants

DefaultMaxRetries == 3
DefaultBaseDelay == 1000
RateLimitWindow == 60
DefaultRetryAfterMs == 60000
ContentTTL == 3600
CompetitorTTL == 86400
\* API_TIMEOUT || '30000', in seconds
ApiTimeout == 30
\* the retry count of a deployment that sets API_RETRIES
ApiRetries == 1
\* maxKeys: cacheConfig?.maxSize || 1000
CacheMaxKeys == 1000
\* the caps and confidence values of the competitor-analysis route
MaxCompetitors == 5
MaxOpportunities == 10
MaxInsights == 10
MaxGapsPerCompetitor == 8
ConfidenceEnhanced == 95
ConfidenceBase == 85

----------------------------------------------------------------------------
\* Values

Clients == {"openai", "perplexity", "claude"}

\* A parsed provider payload. shape tells what JSON.parse produced:
\*   "undefined" no value, "null" a falsy JSON value, "empty" the object {},
\*   "full" a CompetitorAnalysisResponse, "gaps" a string[], "content" a
\*   ContentAnalysisResponse (opaque, told apart by tag).
Payload(shape, competitors, opportunities, marketInsights, gaps, tag) ==
    [shape |-> shape, competitors |-> competitors, opportunities |-> opportunities,
     marketInsights |-> marketInsights, gaps |-> gaps, tag |-> tag]

Undefined == Payload("undefined", <<>>, <<>>, <<>>, <<>>, 0)
JsonNull == Payload("null", <<>>, <<>>, <<>>, <<>>, 0)
EmptyObj == Payload("empty", <<>>, <<>>, <<>>, <<>>, 0)

\* JavaScript truthiness of a payload: objects and arrays are truthy,
\* undefined and null (and the other falsy JSON values) are not.
Truthy(v) == v.shape \notin {"undefined", "null"}

Msg(text, secs) == [text |-> text, secs |-> secs]

\* A thrown value or an envelope's error. isError: it is an instance of Error
\* (an APIError made by createError is a plain object, so it is not).
NoError ==
    [isError |-> FALSE, code |-> "none", message |-> Msg("", 0), retryable |-> FALSE,
     provider |-> "none"]
NoThrow == NoError
ThrownError(message) ==
    [isError |-> TRUE, code |-> "Error", message |-> message, retryable |-> FALSE,
     provider |-> "none"]

----------------------------------------------------------------------------
\* Requests and provider responses (the inputs the actions draw from)

Request(url, keywords, depth, text, competitorContent) ==
    [url |-> url, keywords |-> keywords, depth |-> depth, text |-> text,
     competitorContent |-> competitorContent]

NoRequest == Request("", <<>>, "", "", <<>>)

Token(by, n) == [by |-> by, n |-> n]

\* rest stands for the other fields of a CompetitorData (it tells whose
\* record it is)
Competitor(domain, by, nGaps) ==
    [domain |-> domain, rest |-> by, contentGaps |-> [j \in 1..nGaps |-> Token(by, j)]]

Opportunity(topic, keywords, difficulty, potential, contentType) ==
    [topic |-> topic, keywords |-> keywords, difficulty |-> difficulty,
     potential |-> potential, contentType |-> contentType]

\* a provider-reported CompetitorAnalysisResponse: the competitors of the
\* given domains with nGaps content gaps each, nOpp opportunities, nIns insights
FullPayload(by, domains, nGaps, nOpp, nIns) ==
    Payload("full",
            [i \in 1..Len(domains) |-> Competitor(domains[i], by, nGaps)],
            [i \in 1..nOpp |-> Opportunity(Token(by, i), <<>>, 50, 50, "blog")],
            [i \in 1..nIns |-> Token(by, i)],
            <<>>, 0)

GapsPayload(n) == Payload("gaps", <<>>, <<>>, <<>>, [i \in 1..n |-> Token("claude", i)], 0)

ContentPayload(tag) == Payload("content", <<>>, <<>>, <<>>, <<>>, tag)

\* message.content of a completion: text says how it reads as JSON
\*   "json" (value is what it parses to), "empty" ('' or null), "null"
\*   (the text null, or another falsy JSON value), "garbage" (not JSON)
Body(text, value) == [kind |-> "ok", text |-> text, value |-> value, message |-> Msg("", 0)]
Failure(message) == [kind |-> "error", text |-> "", value |-> Undefined, message |-> message]

UpstreamError == Msg("upstream request failed", 0)
UpstreamTimeout == Msg("upstream request timed out", 0)
UpstreamRateLimit == Msg("RATE_LIMIT_EXCEEDED by upstream", 0)
SyntaxErrorMsg == Msg("Unexpected token in JSON", 0)
TypeErrorMsg == Msg("Cannot read properties of null or undefined", 0)
UnknownErrorMsg == Msg("Unknown error", 0)

NeverRateLimitMessage(message) == FALSE
\* error.message.includes('RATE_LIMIT_EXCEEDED')
IsRateLimitMessage(message) == message = UpstreamRateLimit

OpenAIPayloads ==
    { FullPayload("openai", <<"d1", "d2", "d3", "d4">>, 2, 6, 6),
      FullPayload("openai", <<"d1", "d2", "d3", "d4", "d5", "d6">>, 9, 11, 11) }

PerplexityPayloads ==
    { FullPayload("perplexity", <<"d4", "d5", "d6", "d7">>, 2, 6, 6),
      FullPayload("perplexity", <<"d1", "d8", "d8">>, 1, 1, 1) }

ClaudeGaps == { GapsPayload(0), GapsPayload(3), GapsPayload(10) }

\* what a provider can answer to one network call of an operation
Responses(p, op) ==
    {Failure(UpstreamError), Failure(UpstreamRateLimit)}
    \cup {Body("empty", Undefined), Body("garbage", Undefined)}
    \cup (IF p = "openai" THEN {} ELSE {Body("null", JsonNull)})
    \cup (CASE op = "analyze-competitors" ->
                {Body("json", v) : v \in IF p = "openai" THEN OpenAIPayloads
                                           ELSE PerplexityPayloads}
            [] op = "content-gaps" ->
                {Body("json", v) : v \in ClaudeGaps \cup {EmptyObj}}
            [] OTHER ->
                {Body("json", ContentPayload(t)) : t \in {1, 2}})

----------------------------------------------------------------------------
\* Configuration (createAPIConfig) and its validation

EnvPrefix(p) ==
    CASE p = "openai" -> "OPENAI"
      [] p = "perplexity" -> "PERPLEXITY"
      [] p = "claude" -> "CLAUDE"
      [] OTHER -> "GEMINI"

EnvVar(prefix, suffix) == <<prefix, suffix>>

\* the model name used when <PREFIX>_MODEL is not set: '' for perplexity
HasDefaultModel(p) == p \in {"gemini", "openai", "claude"}

createAPIConfig(p) ==
    [provider |-> p,
     apiKey |-> EnvVar(EnvPrefix(p), "API_KEY") \in env,
     model |-> EnvVar(EnvPrefix(p), "MODEL") \in env \/ HasDefaultModel(p),
     timeout |-> ApiTimeout,
     retries |-> IF EnvVar("API", "RETRIES") \in env THEN ApiRetries ELSE DefaultMaxRetries,
     rateLimit |-> [requests |-> RateLimitRequests, window |-> RateLimitWindow]]

\* every variable read by createAPIConfig is set
EnvPrefixed ==
    {EnvVar(EnvPrefix(p), s) : p \in Clients, s \in {"API_KEY", "MODEL"}}

\* only the credentials are set (the key createAPIConfig reads for each
\* client and the Anthropic key the health check requires); the models are
\* left to their defaults
EnvKeysOnly ==
    {EnvVar(EnvPrefix(p), "API_KEY") : p \in Clients} \cup {EnvVar("ANTHROPIC", "API_KEY")}

\* the variables of the shipped .env example
EnvExample ==
    {EnvVar("OPENAI", "API_KEY"), EnvVar("OPENAI", "MODEL"),
     EnvVar("ANTHROPIC", "API_KEY"), EnvVar("ANTHROPIC", "MODEL"),
     EnvVar("GOOGLE_AI", "API_KEY"), EnvVar("GOOGLE_AI", "MODEL"),
     EnvVar("PERPLEXITY", "API_KEY"), EnvVar("PERPLEXITY", "MODEL")}

\* the variables of the example, and those createAPIConfig reads as well,
\* the retry count among them
EnvComplete == EnvPrefixed \cup EnvExample \cup {EnvVar("API", "RETRIES")}

createError(p, code, message, retryable) ==
    [isError |-> FALSE, code |-> code, message |-> message, retryable |-> retryable,
     provider |-> p]

\* validateConfig: the APIError it throws, or NoThrow
validateConfig(p) ==
    LET config == createAPIConfig(p) IN
    IF ~config.apiKey THEN createError(p, "MISSING_API_KEY", Msg("API key is required", 0), FALSE)
    ELSE IF ~config.model THEN createError(p, "MISSING_MODEL", Msg("Model is required", 0), FALSE)
    ELSE NoThrow

\* validateEnvironment: the required variables, and those of them not set
validateEnvironment ==
    LET required == {EnvVar("OPENAI", "API_KEY"), EnvVar("ANTHROPIC", "API_KEY"),
                     EnvVar("GOOGLE_AI", "API_KEY"), EnvVar("PERPLEXITY", "API_KEY")}
        missing == required \ env
    IN [valid |-> missing = {}, missing |-> missing]

----------------------------------------------------------------------------
\* BaseAPIClient: cache, rate limit gate, retry, envelopes

\* RateLimiterMemory holds no record for the key
NoLimit == [consumed |-> 0, expires |-> 0]

\* RateLimiterMemory.consume(key): one point more in the live window, or a
\* new window of `window` seconds when there is no live record
consume(p, lim, t) ==
    IF lim.expires > t
    THEN [consumed |-> lim.consumed + 1, expires |-> lim.expires]
    ELSE [consumed |-> 1, expires |-> t + createAPIConfig(p).rateLimit.window]

\* Math.round((res.msBeforeNext || 60000) / 1000) || 1
RetryAfterSecs(msBeforeNext) ==
    LET ms == IF msBeforeNext = 0 THEN DefaultRetryAfterMs ELSE msBeforeNext
        secs == (ms + 500) \div 1000
    IN IF secs = 0 THEN 1 ELSE secs

LimitExceededLate(p, lim) == lim.consumed > createAPIConfig(p).rateLimit.requests + 1
\* does consume() reject: more points consumed than the quota
LimitExceeded(p, lim) == lim.consumed > createAPIConfig(p).rateLimit.requests

\* checkRateLimit, given the limiter record after consume: what it throws
checkRateLimit(p, lim, t) ==
    IF LimitExceeded(p, lim)
    THEN createError(p, "RATE_LIMIT_EXCEEDED",
                     Msg("Rate limit exceeded. Try again in",
                         RetryAfterSecs((lim.expires - t) * 1000)), TRUE)
    ELSE NoThrow

\* JSON.stringify(data) then base64: one text per request value, so the
\* request value itself stands for it
getCacheKey(p, endpoint, data) == <<p, endpoint, data>>

\* NodeCache.get: the value of a key that is stored and not expired
NodeCacheGet(c, key, t) ==
    IF key \in DOMAIN c /\ ~(c[key].t < t) THEN c[key].v ELSE Undefined

\* NodeCache.get deletes the key it finds expired
NodeCacheExpire(c, key, t) ==
    IF key \in DOMAIN c /\ c[key].t < t
    THEN [k \in DOMAIN c \ {key} |-> c[k]]
    ELSE c

\* the entries of requests other than those followed one by one, kept as
\* one entry that counts them (n)
OtherKeys == <<"other requests">>

\* stats.keys of the NodeCache
KeyCount(c) ==
    IF OtherKeys \in DOMAIN c
    THEN Cardinality(DOMAIN c) - 1 + c[OtherKeys].n
    ELSE Cardinality(DOMAIN c)

CacheFullMsg == Msg("Cache max keys amount exceeded", 0)

\* NodeCache.set throws ECACHEFULL when the cache holds maxKeys keys
NodeCacheFull(c) == KeyCount(c) >= CacheMaxKeys

NodeCacheSet(c, key, v, ttl, t) ==
    [k \in DOMAIN c \cup {key} |-> IF k = key THEN [v |-> v, t |-> t + ttl] ELSE c[k]]

\* this.cache.get<T>(cacheKey) || null
getCachedResponse(c, key, t) ==
    LET v == NodeCacheGet(c, key, t) IN IF Truthy(v) THEN v ELSE JsonNull

\* this.cache.set(cacheKey, data, ttl || 3600)
setCachedResponse(c, key, data, ttl, t) ==
    NodeCacheSet(c, key, data, IF ttl = 0 THEN ContentTTL ELSE ttl, t)

\* baseDelay * Math.pow(2, attempt)
BackoffDelay(baseDelay, attempt) == baseDelay * 2 ^ attempt

RetriesExhaustedEarly(attempt, maxRetries) == attempt + 1 = maxRetries
\* if (attempt === maxRetries) break
RetriesExhausted(attempt, maxRetries) == attempt = maxRetries

\* metadata of an envelope (its timestamp, duration, token count and cost
\* decide nothing here and are left out)
Metadata(p, cached) == [provider |-> p, cached |-> cached]

NoResult ==
    [success |-> FALSE, data |-> Undefined, error |-> NoError,
     metadata |-> Metadata("none", FALSE)]

createSuccessResponse(p, data, cached) ==
    [success |-> TRUE, data |-> data, error |-> NoError, metadata |-> Metadata(p, cached)]

createErrorResponse(p, error) ==
    [success |-> FALSE, data |-> Undefined, error |-> error, metadata |-> Metadata(p, FALSE)]

----------------------------------------------------------------------------
\* Provider client operations (OpenAIClient, PerplexityClient, ClaudeClient)

Operations ==
    { <<"openai", "analyze-content">>, <<"openai", "analyze-competitors">>,
      <<"perplexity", "analyze-content">>, <<"perplexity", "analyze-competitors">>,
      <<"claude", "content-gaps">> }

\* the ttl each operation passes to setCachedResponse
OpTTL(op) == IF op = "analyze-content" THEN ContentTTL ELSE CompetitorTTL

\* the code each operation's catch clause gives the error
OpFailCode(op) ==
    CASE op = "analyze-content" -> "CONTENT_ANALYSIS_FAILED"
      [] op = "analyze-competitors" -> "COMPETITOR_ANALYSIS_FAILED"
      [] OTHER -> "CONTENT_GAPS_FAILED"

Parsed(value) == [ok |-> TRUE, value |-> value, thrown |-> NoThrow]
ParseThrows(message) == [ok |-> FALSE, value |-> Undefined, thrown |-> ThrownError(message)]

\* what the operation makes of a completion, after executeWithRetry returned:
\*   OpenAI, Perplexity: JSON.parse(content || '{}')
\*   Claude content-gaps: JSON.parse(text) then result.gaps || []
ParseBody(p, op, body) ==
    IF op = "content-gaps"
    THEN CASE body.text \in {"empty", "garbage"} -> ParseThrows(SyntaxErrorMsg)
           [] body.text = "null" -> ParseThrows(TypeErrorMsg)
           [] OTHER -> IF body.value.shape = "gaps" THEN Parsed(body.value)
                       ELSE Parsed(GapsPayload(0))
    ELSE CASE body.text = "empty" -> Parsed(EmptyObj)
           [] body.text = "garbage" -> ParseThrows(SyntaxErrorMsg)
           [] OTHER -> Parsed(body.value)

\* the catch clause of an operation: an Error keeps its message, anything
\* else thrown becomes 'Unknown error'
CatchEnvelope(p, op, thrown) ==
    createErrorResponse(p,
        IF thrown.isError
        THEN createError(p, OpFailCode(op), thrown.message, TRUE)
        ELSE createError(p, OpFailCode(op), UnknownErrorMsg, TRUE))

\* how: the path the operation took, once it is done
\*   "hit" served from the cache, "rejected" by the rate limit gate,
\*   "invalid" configuration, "ratelimited" rate-limit error of an attempt,
\*   "exhausted" every attempt failed, "unparseable" body, "ok";
\* issuedAt: the time the attempt in flight was issued; lastError: the
\* lastError of executeWithRetry; firstError (history): the error of the
\* first attempt that failed; settledAfter (history): how many of the other
\* calls of the route's fan-out had settled when this one succeeded
IdleCall ==
    [pc |-> "idle", provider |-> "none", op |-> "none", req |-> NoRequest,
     attempt |-> 0, maxRetries |-> 0, baseDelay |-> 0,
     opCalls |-> 0, delays |-> <<>>, thrown |-> NoThrow, result |-> NoResult,
     how |-> "none", ordinal |-> 0, retryAfter |-> 0, issuedAt |-> 0,
     lastError |-> Msg("", 0), firstError |-> Msg("", 0), settledAfter |-> 0,
     received |-> FALSE,
     priorLive |-> FALSE, priorData |-> Undefined]

\* history: the entry of the last non-cached success of a request is live
PriorLive(p, key) ==
    key \in DOMAIN lastOk[p] /\ now < lastOk[p][key].at + lastOk[p][key].ttl

\* history: the fixed window of the provider's quota, as it is after one
\* more non-cached request at time t: the request joins the open window, or
\* opens a new one when none is open; passed counts the requests of the
\* window that the gate admitted
Asked(w, t, admitted) ==
    LET one == IF admitted THEN 1 ELSE 0 IN
    IF w.asked > 0 /\ t < w.opened + RateLimitWindow
    THEN [opened |-> w.opened, asked |-> w.asked + 1, passed |-> w.passed + one]
    ELSE [opened |-> t, asked |-> 1, passed |-> one]

CacheHitCounted(p, key, base, cached) ==
    [call |-> [base EXCEPT !.pc = "done", !.how = "hit",
                   !.result = createSuccessResponse(p, cached, TRUE)],
     cache |-> NodeCacheExpire(cache[p], key, now),
     limiter |-> consume(p, limiter[p], now),
     asked |-> asked[p]]
\* if (cached) return this.createSuccessResponse(cached, startTime, true):
\* the call record and the client's cache and limiter afterwards
CacheHit(p, key, base, cached) ==
    [call |-> [base EXCEPT !.pc = "done", !.how = "hit",
                   !.result = createSuccessResponse(p, cached, TRUE)],
     cache |-> NodeCacheExpire(cache[p], key, now),
     limiter |-> limiter[p],
     asked |-> asked[p]]

\* The synchronous start of an operation, up to its first await: cache
\* lookup, and on a miss rateLimiter.consume(). Gives the call record and
\* the client's cache and limiter afterwards.
StartCall(p, op, req) ==
    LET key == getCacheKey(p, op, req)
        cached == getCachedResponse(cache[p], key, now)
        lim == consume(p, limiter[p], now)
        w == Asked(asked[p], now, ~LimitExceeded(p, lim))
        base == [IdleCall EXCEPT !.provider = p, !.op = op, !.req = req,
                     !.priorLive = PriorLive(p, key),
                     !.priorData = IF PriorLive(p, key) THEN lastOk[p][key].data
                                   ELSE Undefined]
    IN IF Truthy(cached)
       THEN CacheHit(p, key, base, cached)
       ELSE [call |-> [base EXCEPT !.pc = "gate",
                           !.ordinal = w.asked,
                           !.retryAfter = w.opened + RateLimitWindow - now,
                           !.thrown = checkRateLimit(p, lim, now)],
             cache |-> NodeCacheExpire(cache[p], key, now),
             limiter |-> lim,
             asked |-> w]

----------------------------------------------------------------------------
\* Steps of a client operation in flight (call slot c)

\* call slots: one of a direct caller, two of concurrent callers of one
\* client, and one per client call of the competitor-analysis route
DirectCalls == {"direct"}
ConcurrentCalls == {"caller1", "caller2"}
RouteCalls == {"openai", "perplexity", "claude"}
CallIds == DirectCalls \cup ConcurrentCalls \cup RouteCalls

Requests ==
    { Request("example.com", <<"seo tools">>, "detailed", "", <<>>),
      Request("example.org", <<"seo tools">>, "detailed", "", <<>>) }

\* history: the call record of slot c as the step leaves it, a success
\* marked with the number of calls of the same fan-out that settled before it
Settle(c, call) ==
    LET peers == IF c \in {"openai", "perplexity"} THEN {"openai", "perplexity"} \ {c}
                 ELSE {}
    IN IF call.pc = "done" /\ call.result.success
       THEN [call EXCEPT !.settledAfter = Cardinality({q \in peers : calls[q].pc = "done"})]
       ELSE call

\* A caller invokes a client operation directly (the exported singletons),
\* in a free call slot.
Invoke(c, p, op, req) ==
    /\ calls[c].pc \in {"idle", "done"}
    /\ LET s == StartCall(p, op, req) IN
        /\ calls' = [calls EXCEPT ![c] = s.call]
        /\ cache' = [cache EXCEPT ![p] = s.cache]
        /\ limiter' = [limiter EXCEPT ![p] = s.limiter]
        /\ asked' = [asked EXCEPT ![p] = s.asked]
    /\ UNCHANGED <<now, ticks, env, endpointVars, lastOk, routeVars, routerVars>>

\* After `await this.checkRateLimit()`: the rejection is thrown into the
\* catch clause; otherwise validateConfig() runs, and executeWithRetry
\* starts the first attempt (the network call is issued).
AfterGate(c) ==
    LET call == calls[c]
        p == call.provider
        invalid == validateConfig(p)
    IN
    /\ call.pc = "gate"
    /\ calls' = [calls EXCEPT ![c] = Settle(c,
          IF call.thrown # NoThrow
          THEN [call EXCEPT !.pc = "done", !.how = "rejected",
                    !.result = CatchEnvelope(p, call.op, call.thrown)]
          ELSE IF invalid # NoThrow
          THEN [call EXCEPT !.pc = "done", !.how = "invalid", !.thrown = invalid,
                    !.result = CatchEnvelope(p, call.op, invalid)]
          ELSE [call EXCEPT !.pc = "inflight", !.attempt = 0,
                    !.maxRetries = DefaultMaxRetries, !.baseDelay = DefaultBaseDelay,
                    !.opCalls = 1, !.issuedAt = now])]
    /\ UNCHANGED <<now, ticks, env, endpointVars, cache, limiter, lastOk, asked, routeVars, routerVars>>

RaisedFirst(call) == ThrownError(call.firstError)
\* throw lastError, after the loop of executeWithRetry
RaisedAfterLoop(call) == ThrownError(call.lastError)

StoreAlways(c, key, parsed, ttl, t) == setCachedResponse(c, key, parsed.value, ttl, t)
\* this.setCachedResponse(cacheKey, response, ttl), which JSON.parse
\* throwing skips
StoreParsed(c, key, parsed, ttl, t) ==
    IF parsed.ok /\ ~NodeCacheFull(c)
    THEN setCachedResponse(c, key, parsed.value, ttl, t) ELSE c

\* The provider answers the attempt in flight with resp.
\*   error: executeWithRetry rethrows a rate-limit error at once, gives up
\*          with the last error after the last attempt, else backs off;
\*   body:  executeWithRetry returns it; the operation parses it, stores
\*          the parsed value in the cache and returns the success envelope;
\*          the error cache.set throws goes to the operation's catch clause
\*          like the one JSON.parse throws.
NetReturn(c, resp) ==
    LET call == calls[c]
        p == call.provider
        key == getCacheKey(p, call.op, call.req)
        parsed == ParseBody(p, call.op, resp)
        failed == [call EXCEPT !.lastError = resp.message,
                               !.firstError = IF @ = Msg("", 0) THEN resp.message ELSE @]
        full == parsed.ok /\ NodeCacheFull(cache[p])
        got == [call EXCEPT !.received = parsed.ok]
    IN
    /\ call.pc = "inflight"
    /\ IF resp.kind = "error"
       THEN /\ calls' = [calls EXCEPT ![c] = Settle(c,
                  IF IsRateLimitMessage(resp.message)
                  THEN [failed EXCEPT !.pc = "done", !.how = "ratelimited",
                            !.thrown = ThrownError(resp.message),
                            !.result = CatchEnvelope(p, call.op, ThrownError(resp.message))]
                  ELSE IF RetriesExhausted(call.attempt, call.maxRetries)
                  THEN [failed EXCEPT !.pc = "done", !.how = "exhausted",
                            !.thrown = RaisedAfterLoop(failed),
                            !.result = CatchEnvelope(p, call.op, RaisedAfterLoop(failed))]
                  ELSE [failed EXCEPT !.pc = "backoff",
                            !.delays = Append(@, BackoffDelay(call.baseDelay, call.attempt))])]
            /\ UNCHANGED <<cache, lastOk>>
       ELSE /\ calls' = [calls EXCEPT ![c] = Settle(c,
                  IF ~parsed.ok
                  THEN [got EXCEPT !.pc = "done", !.how = "unparseable",
                            !.thrown = parsed.thrown,
                            !.result = CatchEnvelope(p, call.op, parsed.thrown)]
                  ELSE IF full
                  THEN [got EXCEPT !.pc = "done", !.how = "cachefull",
                            !.thrown = ThrownError(CacheFullMsg),
                            !.result = CatchEnvelope(p, call.op, ThrownError(CacheFullMsg))]
                  ELSE [got EXCEPT !.pc = "done", !.how = "ok",
                            !.result = createSuccessResponse(p, parsed.value, FALSE)])]
            /\ cache' = [cache EXCEPT ![p] =
                  StoreParsed(@, key, parsed, OpTTL(call.op), now)]
            /\ lastOk' = IF ~parsed.ok \/ full THEN lastOk
                         ELSE [lastOk EXCEPT ![p] =
                                 [k \in DOMAIN @ \cup {key} |->
                                     IF k = key THEN [data |-> parsed.value, at |-> now,
                                                      ttl |-> OpTTL(call.op)]
                                     ELSE @[k]]]
    /\ UNCHANGED <<now, ticks, env, endpointVars, limiter, asked, routeVars, routerVars>>

\* The backoff timer fires: the loop's next attempt issues the call again.
BackoffDone(c) ==
    LET call == calls[c] IN
    /\ call.pc = "backoff"
    /\ calls' = [calls EXCEPT ![c] =
          [call EXCEPT !.pc = "inflight", !.attempt = @ + 1, !.opCalls = @ + 1,
                       !.issuedAt = now]]
    /\ UNCHANGED <<now, ticks, env, endpointVars, cache, limiter, lastOk, asked, routeVars, routerVars>>

\* clearCache(): this.cache.flushAll()
ClearCache(p) ==
    /\ DOMAIN cache[p] # {}
    /\ cache' = [cache EXCEPT ![p] = <<>>]
    /\ lastOk' = [lastOk EXCEPT ![p] = <<>>]
    /\ UNCHANGED <<now, ticks, env, endpointVars, limiter, calls, asked, routeVars, routerVars>>

\* Requests other than those followed one by one are served: n operations
\* of client p succeed for n other request bodies, over the rate-limit
\* windows that takes, and their results are in the cache of p, to expire
\* after the operation's TTL.
ServeOthers(p, op, n) ==
    LET windows == (n + RateLimitRequests - 1) \div RateLimitRequests
        t == now + windows * RateLimitWindow
    IN
    /\ OtherKeys \notin DOMAIN cache[p]
    /\ \A c \in CallIds : calls[c].pc \in {"idle", "done"}
    /\ now' = t
    /\ cache' = [cache EXCEPT ![p] =
          [k \in DOMAIN @ \cup {OtherKeys} |->
              IF k = OtherKeys THEN [v |-> EmptyObj, t |-> t + OpTTL(op), n |-> n]
              ELSE @[k]]]
    /\ UNCHANGED <<ticks, env, endpointVars, limiter, calls, asked, lastOk,
                   routeVars, routerVars>>

TickSteps == {RateLimitWindow, CompetitorTTL}

\* Time passes.
Tick(d) ==
    /\ ticks < MaxTicks
    /\ now' = now + d
    /\ ticks' = ticks + 1
    /\ UNCHANGED <<env, endpointVars, clientVars, routeVars, routerVars>>

----------------------------------------------------------------------------
\* LLMRouter

RouterNames == {"claude", "gemini", "openai"}

\* lastError = undefined
Unset == Msg("undefined", 0)
QuotaDisabled == Msg("Quota exceeded - temporarily disabled", 0)
ProviderFailed == Msg("provider call failed", 0)
NotAFunction == Msg("provider.client.generateText is not a function", 0)
NoProvidersMsg == Msg("No available LLM providers", 0)
AllFailedMsg(lastError) ==
    [text |-> "All LLM providers failed. Last error:", secs |-> 0, last |-> lastError]

\* a client object: each evaluation of `new <Class>Client()` makes one, with
\* its own NodeCache and its own RateLimiterMemory
NewClient(class, madeBy) == [class |-> class, madeBy |-> madeBy]

\* the client each client module exports (openaiClient, claudeClient, ...)
ExportedClient(p) == NewClient(p, "client module")

Provider(client, priority, available, lastError) ==
    [client |-> client, priority |-> priority, available |-> available,
     lastError |-> lastError]

\* initializeProviders: claude (1), gemini (2), openai (3, disabled), each
\* with a client constructed there
initializeProviders ==
    [n \in RouterNames |->
        CASE n = "claude" -> Provider(NewClient(n, "initializeProviders"), 1, TRUE, Unset)
          [] n = "gemini" -> Provider(NewClient(n, "initializeProviders"), 2, TRUE, Unset)
          [] OTHER -> Provider(NewClient(n, "initializeProviders"), 3, FALSE, QuotaDisabled)]

\* the public methods of the client object each router provider holds
ClientMethods(n) ==
    {"healthCheck", "clearCache", "getCacheStats"} \cup
    CASE n = "claude" -> {"analyzeReadability", "analyzeOriginality", "enhanceContent",
                          "generateContentGaps"}
      [] n = "gemini" -> {"analyzeKeywords", "optimizeSEO", "generateContentSuggestions",
                          "analyzeContentStructure"}
      [] OTHER -> {"analyzeContent", "analyzeCompetitors", "generateSEORecommendations"}

\* the provider of the lowest priority number, available or not
getFirstProvider(ps) ==
    CHOOSE n \in RouterNames : \A m \in RouterNames : ps[n].priority <= ps[m].priority

\* getNextAvailableProvider: the available provider of the lowest priority
\* number, or null ("none")
getNextAvailableProvider(ps) ==
    LET available == {n \in RouterNames : ps[n].available} IN
    IF available = {} THEN "none"
    ELSE CHOOSE n \in available : \A m \in available : ps[n].priority <= ps[m].priority

\* what a provider's service does when it is asked for text
Answered(text) == [ok |-> TRUE, text |-> text, message |-> Unset]
Refused(message) == [ok |-> FALSE, text |-> "", message |-> message]
GenAnswers == {Answered("text a"), Refused(ProviderFailed)}

\* callProvider: provider.client.generateText(prompt, ...); calling a
\* method the client does not have throws a TypeError
callProvider(n, answer) ==
    IF "generateText" \in ClientMethods(n) THEN answer ELSE Refused(NotAFunction)

GenIds == {"g1", "g2"}

NoContent == [by |-> "none", text |-> ""]
NoGenResult == [success |-> FALSE, provider |-> "none", content |-> NoContent]
NoPrev == [tried |-> <<>>, would |-> <<>>]

\* one generateContent call: attempt is the loop counter, provider the one
\* being called, lastError the loop's lastError; thrown is the message of
\* the Error the call ended with. History: tried (the providers attempted,
\* in order), would (what the service of each did or would have done),
\* avail0 (the providers available at the start), solo (no other
\* generateContent call ran during the call), fresh (the providers table is
\* as the call left it), prev (the call that ended just before this one began)
IdleGen ==
    [pc |-> "idle", attempt |-> 0, provider |-> "none", lastError |-> Unset,
     result |-> NoGenResult, thrown |-> Unset,
     tried |-> <<>>, would |-> <<>>, avail0 |-> {},
     solo |-> TRUE, fresh |-> FALSE, prev |-> NoPrev]

\* The top of one iteration of the loop of generateContent, for the call
\* record gen with the providers table ps: leave the loop (and throw) when
\* attempt reached providers.length, throw when no provider is available,
\* else call the provider selected.
LoopTop(gen, ps) ==
    LET provider == getNextAvailableProvider(ps) IN
    IF gen.attempt >= Cardinality(RouterNames)
    THEN [gen EXCEPT !.pc = "done", !.provider = "none", !.fresh = TRUE,
              !.thrown = AllFailedMsg(gen.lastError)]
    ELSE IF provider = "none"
    THEN [gen EXCEPT !.pc = "done", !.provider = "none", !.fresh = TRUE,
              !.thrown = NoProvidersMsg]
    ELSE [gen EXCEPT !.pc = "calling", !.provider = provider,
              !.tried = Append(@, provider)]

\* history: every other call in flight now overlapped with call g
Disturb(gs, g) ==
    [h \in GenIds |-> IF h # g /\ gs[h].pc = "calling"
                      THEN [gs[h] EXCEPT !.solo = FALSE] ELSE gs[h]]

\* history: the providers table changes, so no ended call other than g
\* sees it as it left it
Stale(gs, g) ==
    [h \in GenIds |-> IF h # g THEN [gs[h] EXCEPT !.fresh = FALSE] ELSE gs[h]]

NoLastGen == [tried |-> <<>>, would |-> <<>>, clean |-> FALSE]

\* the call slots once generateContent(prompt, options) began in slot g and
\* ran up to its first await
BeginGen(g) ==
    LET fresh == [IdleGen EXCEPT
                     !.avail0 = {n \in RouterNames : providers[n].available},
                     !.solo = \A h \in GenIds \ {g} : gens[h].pc # "calling",
                     !.prev = IF genLog.clean
                              THEN [tried |-> genLog.tried, would |-> genLog.would]
                              ELSE NoPrev]
    IN [Disturb(gens, g) EXCEPT ![g] = LoopTop(fresh, providers)]

\* generateContent(prompt, options) begins: up to the first await
GenBegin(g) ==
    /\ gens[g].pc \in {"idle", "done"}
    /\ gens' = BeginGen(g)
    /\ UNCHANGED <<providers, currentProvider, genLog>>
    /\ UNCHANGED <<now, ticks, env, endpointVars, clientVars, routeVars>>

\* the providers after an attempt on n, a failure also moving every other
\* provider ahead of n
MarkAttemptDemoting(ps, n, out) ==
    IF out.ok
    THEN [ps EXCEPT ![n].available = TRUE, ![n].lastError = Unset]
    ELSE [m \in DOMAIN ps |->
             IF m = n THEN [ps[m] EXCEPT !.available = FALSE, !.lastError = out.message]
             ELSE [ps[m] EXCEPT !.priority = @ - 1]]

\* the providers after the attempt on provider n ended as out: the try
\* block's marking on success, the catch block's on failure
MarkAttempt(ps, n, out) ==
    IF out.ok
    THEN [ps EXCEPT ![n].available = TRUE, ![n].lastError = Unset]
    ELSE [ps EXCEPT ![n].available = FALSE, ![n].lastError = out.message]

\* The provider call of generateContent settles, the provider's service
\* doing `answer`.
\*   callProvider returned text: the provider is marked working and becomes
\*     the current one; generateContent returns.
\*   callProvider threw: the provider is marked unavailable with the
\*     error's message, and the loop goes on to its next iteration.
GenSettle(g, answer) ==
    LET gen == gens[g]
        out == callProvider(gen.provider, answer)
        seen == [gen EXCEPT !.would = Append(@, IF answer.ok THEN "ok" ELSE "fail")]
        ps == MarkAttempt(providers, gen.provider, out)
        next == IF out.ok
                THEN [seen EXCEPT !.pc = "done", !.fresh = TRUE,
                          !.result = [success |-> TRUE, provider |-> gen.provider,
                                      content |-> [by |-> gen.provider, text |-> out.text]]]
                ELSE LoopTop([seen EXCEPT !.attempt = @ + 1, !.lastError = out.message], ps)
    IN
    /\ gen.pc = "calling"
    /\ providers' = ps
    /\ currentProvider' = IF out.ok THEN gen.provider ELSE currentProvider
    /\ gens' = [Stale(Disturb(gens, g), g) EXCEPT ![g] = next]
    /\ genLog' = IF next.pc = "done"
                 THEN [tried |-> next.tried, would |-> next.would, clean |-> gen.solo]
                 ELSE NoLastGen
    /\ UNCHANGED <<now, ticks, env, endpointVars, clientVars, routeVars>>

\* every provider is made available again
EnableEveryProvider ==
    /\ providers' = [n \in RouterNames |->
                        [providers[n] EXCEPT !.available = TRUE, !.lastError = Unset]]
    /\ gens' = Stale(gens, "none")
    /\ UNCHANGED <<currentProvider, genLog>>
    /\ UNCHANGED <<now, ticks, env, endpointVars, clientVars, routeVars>>

\* the openai provider is available again, its last error kept
EnableOpenAIKeepError ==
    /\ providers' = [providers EXCEPT !["openai"].available = TRUE]
    /\ gens' = Stale(gens, "none")
    /\ UNCHANGED <<currentProvider, genLog>>
    /\ UNCHANGED <<now, ticks, env, endpointVars, clientVars, routeVars>>

\* enableOpenAI(): the openai provider is available again
EnableOpenAI ==
    /\ providers' = [providers EXCEPT !["openai"].available = TRUE,
                                      !["openai"].lastError = Unset]
    /\ gens' = Stale(gens, "none")
    /\ UNCHANGED <<currentProvider, genLog>>
    /\ UNCHANGED <<now, ticks, env, endpointVars, clientVars, routeVars>>

\* the provider named becomes the current one, available or not
SwitchToAnyProvider(n) ==
    /\ currentProvider' = n
    /\ UNCHANGED <<providers, gens, genLog>>
    /\ UNCHANGED <<now, ticks, env, endpointVars, clientVars, routeVars>>

\* switchToProvider(providerName): an available provider becomes the
\* current one (for any other name the method returns false)
SwitchToProvider(n) ==
    /\ providers[n].available
    /\ currentProvider' = n
    /\ UNCHANGED <<providers, gens, genLog>>
    /\ UNCHANGED <<now, ticks, env, endpointVars, clientVars, routeVars>>

----------------------------------------------------------------------------
\* The competitor-analysis route: POST /api/competitor/analyze

PostBody(websiteUrl, targetKeywords, analysisDepth) ==
    [websiteUrl |-> websiteUrl, targetKeywords |-> targetKeywords,
     analysisDepth |-> analysisDepth]

NoBody == PostBody("", <<>>, "")

\* request bodies: a complete one, one without URL, one without keywords
RouteBodies ==
    { PostBody("example.com", <<"seo tools">>, ""),
      PostBody("", <<"seo tools">>, ""),
      PostBody("example.com", <<>>, "") }

\* !body.websiteUrl || !body.targetKeywords || body.targetKeywords.length === 0
InvalidBody(body) == body.websiteUrl = "" \/ body.targetKeywords = <<>>

\* the NextResponse: HTTP status and the JSON body (an envelope; confidence
\* is data.analysisMetadata.confidence)
Response(status, success, data, error, confidence, cached) ==
    [status |-> status, success |-> success, data |-> data, error |-> error,
     confidence |-> confidence, cached |-> cached]

NoResponse == Response(0, FALSE, Undefined, NoError, 0, FALSE)

RouteError(code, message, retryable) ==
    [isError |-> FALSE, code |-> code, message |-> message, retryable |-> retryable,
     provider |-> "none"]

InvalidRequestResponse ==
    Response(400, FALSE, Undefined,
             RouteError("INVALID_REQUEST", Msg("Website URL and target keywords are required", 0),
                        FALSE),
             0, FALSE)

\* the outer catch clause
InternalErrorResponse(message) ==
    Response(500, FALSE, Undefined, RouteError("INTERNAL_SERVER_ERROR", message, TRUE),
             0, FALSE)

\* NextResponse.json(envelope, {status: 500})
EnvelopeResponse(envelope, status) ==
    Response(status, envelope.success, envelope.data, envelope.error, 0,
             envelope.metadata.cached)

Min(a, b) == IF a <= b THEN a ELSE b

\* Array.prototype.slice(0, n)
Take(s, n) == SubSeq(s, 1, Min(n, Len(s)))

\* Array.prototype.slice(from, to), zero-based, of an array s
Slice(s, from, to) == SubSeq(s, Min(from, Len(s)) + 1, Min(to, Len(s)))

\* arr.findIndex(o => o.domain === domain), one-based
findIndex(arr, domain) ==
    CHOOSE i \in 1..Len(arr) :
        /\ arr[i].domain = domain
        /\ \A j \in 1..(i - 1) : arr[j].domain # domain

RECURSIVE KeepAt(_, _, _)
\* the elements of arr at the indices in keep, from index i on, in order
KeepAt(arr, keep, i) ==
    IF i > Len(arr) THEN <<>>
    ELSE (IF i \in keep THEN <<arr[i]>> ELSE <<>>) \o KeepAt(arr, keep, i + 1)

KeepEvery(arr) == arr
\* combined.filter((c, index, arr) => arr.findIndex(o => o.domain === c.domain) === index)
DedupeByDomain(arr) ==
    KeepAt(arr, {i \in 1..Len(arr) : findIndex(arr, arr[i].domain) = i}, 1)

AnySettled(cs) == \E c \in cs : calls[c].pc = "done"
\* Promise.allSettled: every call issued has settled
AllSettled(cs) == \A c \in cs : calls[c].pc = "done"

OnlyOpenAIFailed(openaiResponse, perplexityResponse) ==
    ~openaiResponse.success /\ perplexityResponse.success
\* !openaiResponse?.success && !perplexityResponse?.success
BothFailed(openaiResponse, perplexityResponse) ==
    ~openaiResponse.success /\ ~perplexityResponse.success

BaseDataFirstSettled(openaiResponse, perplexityResponse) ==
    IF Truthy(perplexityResponse.data)
          /\ (calls["openai"].settledAfter > 0 \/ ~Truthy(openaiResponse.data))
    THEN perplexityResponse.data ELSE openaiResponse.data
\* openaiResponse?.data || perplexityResponse?.data
BaseData(openaiResponse, perplexityResponse) ==
    IF Truthy(openaiResponse.data) THEN openaiResponse.data ELSE perplexityResponse.data

ContentTypes == <<"blog", "guide", "tutorial", "comparison", "review">>

\* the merge of Perplexity's lists into the response under construction
MergePerplexity(enhanced, data) ==
    [enhanced EXCEPT
        !.competitors = Take(DedupeByDomain(enhanced.competitors \o data.competitors),
                             MaxCompetitors),
        !.opportunities = Take(enhanced.opportunities \o data.opportunities,
                               MaxOpportunities),
        !.marketInsights = Take(enhanced.marketInsights \o data.marketInsights,
                                MaxInsights)]

\* Claude's gaps, two per competitor, and one opportunity per gap
MergeClaude(enhanced, gaps, targetKeywords) ==
    LET claudeOpportunities ==
            [i \in 1..Len(gaps) |->
                Opportunity(gaps[i], Take(targetKeywords, 3), 30 + (i - 1) * 10,
                            70 + (i - 1) * 5, ContentTypes[((i - 1) % 5) + 1])]
    IN [enhanced EXCEPT
        !.competitors =
            [i \in 1..Len(enhanced.competitors) |->
                [enhanced.competitors[i] EXCEPT
                    !.contentGaps = Take(@ \o Slice(gaps, (i - 1) * 2, i * 2),
                                         MaxGapsPerCompetitor)]],
        !.opportunities = Take(enhanced.opportunities \o claudeOpportunities,
                               MaxOpportunities)]

\* confidence: claudeGapsResponse.success ? 95 : 85
Confidence(claudeGapsResponse) ==
    IF claudeGapsResponse.success THEN ConfidenceEnhanced ELSE ConfidenceBase

NoPrevRequest == [body |-> NoBody, status |-> 0]

\* the handler: pc is "idle", "fanout" (awaiting Promise.allSettled), "gaps"
\* (awaiting Claude) or "done" (response returned); openaiResponse,
\* perplexityResponse and baseData are its locals. History: prev (the
\* request answered just before this one and the status it got), produced
\* (the bodies of the earlier requests that were answered with a result)
IdleRoute ==
    [pc |-> "idle", body |-> NoBody, openaiResponse |-> NoResult,
     perplexityResponse |-> NoResult, baseData |-> Undefined, response |-> NoResponse,
     prev |-> NoPrevRequest, produced |-> {}]

\* the handler of a request that arrives after the one of record r
NextRequest(r) ==
    IF r.pc = "done"
    THEN [IdleRoute EXCEPT
             !.prev = [body |-> r.body, status |-> r.response.status],
             !.produced = IF r.response.status = 200
                          THEN r.produced \cup {r.body} ELSE r.produced]
    ELSE IdleRoute

\* POST arrives: validation, then the two analyzeCompetitors calls are
\* issued, each running up to its first await.
RouteStart(body) ==
    LET req == Request(body.websiteUrl, body.targetKeywords,
                       IF body.analysisDepth = "" THEN "detailed" ELSE body.analysisDepth,
                       "", <<>>)
        so == StartCall("openai", "analyze-competitors", req)
        sp == StartCall("perplexity", "analyze-competitors", req)
    IN
    /\ route.pc \in {"idle", "done"}
    /\ served < MaxServed
    /\ IF InvalidBody(body)
       THEN /\ route' = [NextRequest(route) EXCEPT !.pc = "done", !.body = body,
                                                    !.response = InvalidRequestResponse]
            /\ served' = served + 1
            /\ calls' = [c \in CallIds |-> IF c \in RouteCalls THEN IdleCall ELSE calls[c]]
            /\ UNCHANGED <<cache, limiter, asked>>
       ELSE /\ route' = [NextRequest(route) EXCEPT !.pc = "fanout", !.body = body]
            /\ served' = served
            /\ calls' = [calls EXCEPT !["openai"] = so.call, !["perplexity"] = sp.call,
                                      !["claude"] = IdleCall]
            /\ cache' = [cache EXCEPT !["openai"] = so.cache, !["perplexity"] = sp.cache]
            /\ limiter' = [limiter EXCEPT !["openai"] = so.limiter,
                                          !["perplexity"] = sp.limiter]
            /\ asked' = [asked EXCEPT !["openai"] = so.asked, !["perplexity"] = sp.asked]
    /\ UNCHANGED <<now, ticks, env, endpointVars, lastOk, routerVars>>

\* Promise.allSettled resolves: the both-failed answer, or base data
\* selection and the call of Claude's generateContentGaps (up to its first
\* await); reading competitors of base data that has none throws into the
\* outer catch clause.
RouteJoin ==
    LET openaiResponse == calls["openai"].result
        perplexityResponse == calls["perplexity"].result
        baseData == BaseData(openaiResponse, perplexityResponse)
        joined == [route EXCEPT !.openaiResponse = openaiResponse,
                                !.perplexityResponse = perplexityResponse]
        sc == StartCall("claude", "content-gaps",
                        Request("", route.body.targetKeywords, "", "", baseData.competitors))
    IN
    /\ route.pc = "fanout"
    /\ AllSettled({"openai", "perplexity"})
    /\ IF BothFailed(openaiResponse, perplexityResponse)
       THEN /\ route' = [joined EXCEPT !.pc = "done",
                                       !.response = EnvelopeResponse(openaiResponse, 500)]
            /\ served' = served + 1
            /\ UNCHANGED <<calls, cache, limiter, asked>>
       ELSE IF baseData.shape # "full"
       THEN /\ route' = [joined EXCEPT !.pc = "done", !.baseData = baseData,
                                       !.response = InternalErrorResponse(TypeErrorMsg)]
            /\ served' = served + 1
            /\ UNCHANGED <<calls, cache, limiter, asked>>
       ELSE /\ route' = [joined EXCEPT !.pc = "gaps", !.baseData = baseData]
            /\ served' = served
            /\ calls' = [calls EXCEPT !["claude"] = sc.call]
            /\ cache' = [cache EXCEPT !["claude"] = sc.cache]
            /\ limiter' = [limiter EXCEPT !["claude"] = sc.limiter]
            /\ asked' = [asked EXCEPT !["claude"] = sc.asked]
    /\ UNCHANGED <<now, ticks, env, endpointVars, lastOk, routerVars>>

\* Claude's call settles: merge, caps, confidence, and the 200 response;
\* spreading the competitors of Perplexity data that has none throws into
\* the outer catch clause.
RouteMerge ==
    LET perplexityResponse == route.perplexityResponse
        claudeGapsResponse == calls["claude"].result
        withPerplexity == perplexityResponse.success /\ Truthy(perplexityResponse.data)
        merged == IF withPerplexity
                  THEN MergePerplexity(route.baseData, perplexityResponse.data)
                  ELSE route.baseData
        enhanced == IF claudeGapsResponse.success /\ Truthy(claudeGapsResponse.data)
                    THEN MergeClaude(merged, claudeGapsResponse.data.gaps,
                                     route.body.targetKeywords)
                    ELSE merged
    IN
    /\ route.pc = "gaps"
    /\ AllSettled({"claude"})
    /\ route' = [route EXCEPT !.pc = "done", !.response =
          IF withPerplexity /\ perplexityResponse.data.shape # "full"
          THEN InternalErrorResponse(TypeErrorMsg)
          ELSE Response(200, TRUE, enhanced, NoError, Confidence(claudeGapsResponse),
                        route.openaiResponse.metadata.cached)]
    /\ served' = served + 1
    /\ UNCHANGED <<now, ticks, env, endpointVars, clientVars, routerVars>>

----------------------------------------------------------------------------
\* The content endpoints: POST /api/content/analyze and /api/content/enhance

ContentEndpoints == {"analyze-content", "enhance-content"}

\* the generateContent call of each handler
GenSlot(h) == IF h = "analyze-content" THEN "g1" ELSE "g2"

\* a request body: parses tells whether request.json() gives an object,
\* the other fields are those the handlers read ("" for a missing one)
ContentBody(parses, title, content, mode) ==
    [parses |-> parses, title |-> title, content |-> content, mode |-> mode]

NoContentBody == ContentBody(FALSE, "", "", "")

EnhanceModes == {"readability", "human", "personal"}

\* request bodies: not JSON, a complete one, one without content, one
\* without title and mode, one with a mode outside EnhanceModes
ContentBodies ==
    { ContentBody(FALSE, "", "", ""),
      ContentBody(TRUE, "a title", "some content", "readability"),
      ContentBody(TRUE, "a title", "", "human"),
      ContentBody(TRUE, "", "some content", ""),
      ContentBody(TRUE, "a title", "some content", "formal") }

\* analyze: !body.title || !body.content; enhance: !body.content || !body.mode
MissingFields(h, body) ==
    IF h = "analyze-content" THEN body.title = "" \/ body.content = ""
    ELSE body.content = "" \/ body.mode = ""

\* the error of the enhance endpoint's responses: a string, the message
StringError(message) == [message |-> message]

UnknownModeMsg == Msg("Unknown enhancement mode", 0)
TooShortMsg == Msg("Enhanced content is too short - enhancement may have failed", 0)
MinEnhancedLength == 50

\* the 400 answer of the handler's validation
ContentInvalidResponse(h) ==
    IF h = "analyze-content"
    THEN Response(400, FALSE, Undefined,
                  RouteError("INVALID_REQUEST", Msg("Title and content are required", 0), FALSE),
                  0, FALSE)
    ELSE Response(400, FALSE, Undefined,
                  StringError(Msg("Content and mode are required", 0)), 0, FALSE)

\* the catch clause of the handler, for an Error of the given message
ContentCatchResponse(h, message) ==
    IF h = "analyze-content"
    THEN Response(500, FALSE, Undefined, RouteError("ANALYSIS_FAILED", message, TRUE),
                  0, FALSE)
    ELSE Response(500, FALSE, Undefined, StringError(message), 0, FALSE)

IdleHandler == [pc |-> "idle", body |-> NoContentBody, response |-> NoResponse]

\* POST arrives: request.json(), validation, the mode switch of the enhance
\* endpoint, then llmRouter.generateContent begins.
ContentPost(h, body) ==
    LET g == GenSlot(h)
        answer(resp) == [IdleHandler EXCEPT !.pc = "done", !.body = body,
                                            !.response = resp]
    IN
    /\ handlers[h].pc \in {"idle", "done"}
    /\ IF ~body.parses
       THEN /\ handlers' = [handlers EXCEPT ![h] =
                               answer(ContentCatchResponse(h, SyntaxErrorMsg))]
            /\ UNCHANGED gens
       ELSE IF MissingFields(h, body)
       THEN /\ handlers' = [handlers EXCEPT ![h] = answer(ContentInvalidResponse(h))]
            /\ UNCHANGED gens
       ELSE IF h = "enhance-content" /\ body.mode \notin EnhanceModes
       THEN /\ handlers' = [handlers EXCEPT ![h] =
                               answer(ContentCatchResponse(h, UnknownModeMsg))]
            /\ UNCHANGED gens
       ELSE /\ handlers' = [handlers EXCEPT ![h] =
                               [IdleHandler EXCEPT !.pc = "awaiting", !.body = body]]
            /\ gens' = BeginGen(g)
    /\ UNCHANGED <<providers, currentProvider, genLog, health, scoring>>
    /\ UNCHANGED <<now, ticks, env, clientVars, routeVars>>

\* generateContent settled: its Error goes to the catch clause; the text of
\* a success is checked (enhance: at least 50 characters) and returned.
ContentSettle(h) ==
    LET gen == gens[GenSlot(h)] IN
    /\ handlers[h].pc = "awaiting"
    /\ gen.pc = "done"
    /\ handlers' = [handlers EXCEPT ![h] = [@ EXCEPT !.pc = "done", !.response =
          IF ~gen.result.success
          THEN ContentCatchResponse(h, gen.thrown)
          ELSE IF h = "enhance-content" /\ Len(gen.result.content.text) < MinEnhancedLength
          THEN ContentCatchResponse(h, TooShortMsg)
          ELSE Response(200, TRUE, ContentPayload(0), NoError, 0, FALSE)]]
    /\ UNCHANGED <<now, ticks, env, clientVars, routeVars, routerVars, health, scoring>>

----------------------------------------------------------------------------
\* The scores of the content analysis (POST /api/content/analyze)

\* the categories scored, in the order calculateOverallScore reads them
Categories ==
    <<"readability", "seo", "originality", "factCheck", "humanAuthenticity",
      "engagement">>

\* the default the handler passes to extractScore for the category
DefaultScore(category) ==
    CASE category = "readability" -> 75
      [] category = "seo" -> 70
      [] category = "originality" -> 85
      [] category = "factCheck" -> 80
      [] category = "humanAuthenticity" -> 90
      [] category = "engagement" -> 75

\* analysis[category] of a parsed analysis: kind "absent", a "number", or
\* an "object" with a score
Entry(kind, score) == [kind |-> kind, score |-> score]

\* extractScore: analysis[category] must be truthy; the score is
\* analysis[category].score || analysis[category], clamped to 0..100 when
\* it is a number
extractScore(analysis, category, defaultScore) ==
    LET entry == analysis[category]
        truthy == entry.kind = "object" \/ (entry.kind = "number" /\ entry.score # 0)
        isNumber == entry.kind = "number" \/ entry.score # 0
        atLeast0 == IF entry.score < 0 THEN 0 ELSE entry.score
    IN IF truthy /\ isNumber THEN Min(100, atLeast0) ELSE defaultScore

\* calculateOverallScore: Math.round of the mean of the six category scores
calculateOverallScore(analysis) ==
    LET RECURSIVE reduce(_)
        reduce(i) ==
            IF i = 0 THEN 0
            ELSE reduce(i - 1)
                 + extractScore(analysis, Categories[i], DefaultScore(Categories[i]))
        sum == reduce(Len(Categories))
    IN (2 * sum + Len(Categories)) \div (2 * Len(Categories))

\* scores of the handler's response, built from the one analysis the router
\* returned
AnalysisScores(parsedAnalysis) ==
    [category \in DOMAIN parsedAnalysis \cup {"overall"} |->
        IF category = "overall" THEN calculateOverallScore(parsedAnalysis)
        ELSE extractScore(parsedAnalysis, category, DefaultScore(category))]

\* what a provider reports for a category
ReportedEntries ==
    {Entry("absent", 0), Entry("number", 0), Entry("number", 70), Entry("number", 80),
     Entry("number", 130), Entry("object", 80)}

\* the analyses a provider may return for a request: readability and seo
\* vary, the other categories are not reported
Analyses ==
    { [category \in {Categories[i] : i \in 1..Len(Categories)} |->
          CASE category = "readability" -> r
            [] category = "seo" -> o
            [] OTHER -> Entry("absent", 0)] :
        r \in ReportedEntries, o \in {Entry("absent", 0), Entry("number", 60)} }

\* the providers that analyse a request when asked
Analysts == {"claude", "gemini"}

\* no request yet
NoScoring == [reports |-> <<>>, by |-> "none", scores |-> <<>>]

\* a request arrives: what each provider would report for it
AnalysisRequest(reports) ==
    /\ scoring' = [reports |-> reports, by |-> "none", scores |-> <<>>]
    /\ UNCHANGED <<now, ticks, env, clientVars, routeVars, routerVars, handlers, health>>

\* the router returned provider n's analysis and the handler scores it
ScoreAnalysis(n) ==
    /\ scoring.reports # <<>>
    /\ scoring.by = "none"
    /\ scoring' = [scoring EXCEPT !.by = n, !.scores = AnalysisScores(scoring.reports[n])]
    /\ UNCHANGED <<now, ticks, env, clientVars, routeVars, routerVars, handlers, health>>

----------------------------------------------------------------------------
\* The health endpoints (GET)

\* the answer: HTTP status and the per-provider booleans of its body (none
\* in an answer of status 'error')
Health(endpoint, status, services) ==
    [endpoint |-> endpoint, status |-> status, services |-> services]

NoServices == <<>>
NoHealth == Health("none", 0, NoServices)

\* requiredEnvVars of the competitor-analysis health check
RequiredEnvVars ==
    {EnvVar("OPENAI", "API_KEY"), EnvVar("ANTHROPIC", "API_KEY"),
     EnvVar("PERPLEXITY", "API_KEY")}

\* a health check that leaves the quota alone
healthCheckUnmetered(p) ==
    [success |-> validateConfig(p) = NoThrow, limiter |-> limiter[p], asked |-> asked[p]]

\* BaseAPIClient.healthCheck of client p: validateConfig(), then
\* checkRateLimit(), which consumes a point of the quota; gives the
\* envelope's success and the limiter and window afterwards
healthCheck(p) ==
    LET valid == validateConfig(p) = NoThrow
        lim == consume(p, limiter[p], now)
        admitted == ~LimitExceeded(p, lim)
    IN IF valid
       THEN [success |-> checkRateLimit(p, lim, now) = NoThrow, limiter |-> lim,
             asked |-> Asked(asked[p], now, admitted)]
       ELSE [success |-> FALSE, limiter |-> limiter[p], asked |-> asked[p]]

\* GET /api/competitor/analyze: 500 when a required variable is not set,
\* else the three health checks, 200 when all succeeded and 503 otherwise
CompetitorHealth ==
    /\ \A p \in Clients : limiter[p].consumed < RateLimitRequests + MaxOverQuota
    /\ IF ~(RequiredEnvVars \subseteq env)
       THEN /\ health' = Health("competitor", 500, NoServices)
            /\ UNCHANGED <<limiter, asked>>
       ELSE LET services == [p \in Clients |-> healthCheck(p).success]
                allHealthy == \A p \in Clients : services[p]
            IN /\ health' = Health("competitor", IF allHealthy THEN 200 ELSE 503, services)
               /\ limiter' = [p \in Clients |-> healthCheck(p).limiter]
               /\ asked' = [p \in Clients |-> healthCheck(p).asked]
    /\ UNCHANGED <<now, ticks, env, cache, calls, lastOk, routeVars, routerVars, handlers, scoring>>

\* GET of a content endpoint: llmRouter.getProviderStatus(); 503 when no
\* provider is available, else 200
ContentHealth(h) ==
    LET services == [n \in RouterNames |-> providers[n].available]
        availableProviders == {n \in RouterNames : services[n]}
    IN /\ health' = Health(h, IF availableProviders = {} THEN 503 ELSE 200, services)
       /\ UNCHANGED <<now, ticks, env, clientVars, routeVars, routerVars, handlers, scoring>>

----------------------------------------------------------------------------
\* Initial state: module load (the singletons are constructed)

NoWindow == [opened |-> 0, asked |-> 0, passed |-> 0]

Init ==
    /\ now = 0
    /\ ticks = 0
    /\ env \in {EnvPrefixed, EnvKeysOnly, EnvExample, EnvComplete}
    /\ cache = [p \in Clients |-> <<>>]
    /\ limiter = [p \in Clients |-> NoLimit]
    /\ calls = [c \in CallIds |-> IdleCall]
    /\ lastOk = [p \in Clients |-> <<>>]
    /\ asked = [p \in Clients |-> NoWindow]
    /\ route = IdleRoute
    /\ served = 0
    /\ providers = initializeProviders
    /\ currentProvider = "claude"
    /\ gens = [g \in GenIds |-> IdleGen]
    /\ genLog = NoLastGen
    /\ handlers = [h \in ContentEndpoints |-> IdleHandler]
    /\ health = NoHealth
    /\ scoring = NoScoring

----------------------------------------------------------------------------
\* The provider clients under direct callers

DirectOps == { <<"perplexity", "analyze-competitors">> }

\* a direct caller's invocation, as far as the exploration follows a window
DirectInvoke(c, o, r) ==
    /\ limiter[o[1]].consumed < RateLimitRequests + MaxOverQuota
    /\ Invoke(c, o[1], o[2], r)

\* a direct caller's invocation that the cache serves, whatever the window
CachedInvoke(c, o, r) ==
    /\ Truthy(getCachedResponse(cache[o[1]], getCacheKey(o[1], o[2], r), now))
    /\ Invoke(c, o[1], o[2], r)

\* the provider answers the call in flight, in any way it can
Answer(c) ==
    \E resp \in Responses(calls[c].provider, calls[c].op) : NetReturn(c, resp)

\* the same for a direct caller, whose attempts may also fail in a second way
DirectAnswer(c) ==
    \/ Answer(c)
    \/ NetReturn(c, Failure(UpstreamTimeout))

NextClient ==
    \/ \E c \in DirectCalls, o \in DirectOps, r \in Requests : DirectInvoke(c, o, r)
    \/ \E c \in DirectCalls, o \in DirectOps, r \in Requests : CachedInvoke(c, o, r)
    \/ \E c \in DirectCalls : AfterGate(c)
    \/ \E c \in DirectCalls : Answer(c)
    \/ \E c \in DirectCalls : BackoffDone(c)
    \/ \E p \in Clients : ClearCache(p)
    \/ \E d \in TickSteps : Tick(d)

SpecClient == Init /\ [][NextClient]_vars

\* one client operation at a time and the attempts of its retry loop
NextRetry ==
    \/ \E c \in DirectCalls, o \in DirectOps, r \in Requests : DirectInvoke(c, o, r)
    \/ \E c \in DirectCalls : AfterGate(c)
    \/ \E c \in DirectCalls : DirectAnswer(c)
    \/ \E c \in DirectCalls : BackoffDone(c)

SpecRetry == Init /\ [][NextRetry]_vars

\* the number of other requests served before: one short of the cache's
\* maximum, and the maximum
OtherLoads == {CacheMaxKeys - 1, CacheMaxKeys}

\* one client operation at a time on a cache that other requests filled
NextCache ==
    \/ \E c \in DirectCalls, o \in DirectOps, r \in Requests : DirectInvoke(c, o, r)
    \/ \E c \in DirectCalls : AfterGate(c)
    \/ \E c \in DirectCalls : Answer(c)
    \/ \E c \in DirectCalls : BackoffDone(c)
    \/ \E o \in DirectOps, n \in OtherLoads : ServeOthers(o[1], o[2], n)

SpecCache == Init /\ [][NextCache]_vars

----------------------------------------------------------------------------
\* Claims about the provider clients (SpecClient)

\* C1: a call whose request had a successful call before, with the entry
\* that call stored still within its TTL, is served from the cache: it is
\* done at once, with the same data, cached = true, and no network call.
C1_CacheIdempotence ==
    \A c \in CallIds :
        calls[c].pc # "idle" /\ calls[c].priorLive =>
            /\ calls[c].pc = "done"
            /\ calls[c].result.success
            /\ calls[c].result.metadata.cached
            /\ calls[c].result.data = calls[c].priorData
            /\ calls[c].opCalls = 0

\* C2: a non-cached request that comes after N non-cached requests of its
\* window never starts a network call, and its envelope carries the error
\* code RATE_LIMIT_EXCEEDED with the seconds to wait.
C2_RateLimitEnvelope ==
    \A c \in CallIds :
        calls[c].ordinal > RateLimitRequests =>
            /\ calls[c].opCalls = 0
            /\ calls[c].pc = "done" =>
                /\ ~calls[c].result.success
                /\ calls[c].result.error.code = "RATE_LIMIT_EXCEEDED"
                /\ calls[c].result.error.message.secs = calls[c].retryAfter

C13_CallTimeout ==
    \A c \in CallIds :
        calls[c].pc = "inflight" =>
            now < calls[c].issuedAt + createAPIConfig(calls[c].provider).timeout

\* C17: a call of a client whose credential or model is not configured
\* fails without a network call and without retry, and the error returned
\* has the code MISSING_API_KEY or MISSING_MODEL (the one validateConfig
\* raises) and retryable = false.
C17_ConfigFailFast ==
    \A c \in CallIds :
        LET call == calls[c]
            invalid == validateConfig(call.provider)
        IN call.pc # "idle" /\ invalid # NoThrow =>
            /\ call.opCalls = 0
            /\ call.delays = <<>>
            /\ call.pc = "done" =>
                  /\ ~call.result.success
                  /\ call.result.error.code \in {"MISSING_API_KEY", "MISSING_MODEL"}
                  /\ call.result.error.code = invalid.code
                  /\ ~call.result.error.retryable

\* C11: every operation that returned gave an envelope whose metadata
\* carries the client's own provider id; a success envelope has data
\* present and no error; a failure envelope has an error and cached = false.
C11_EnvelopeInvariant ==
    \A c \in CallIds :
        calls[c].pc = "done" =>
            LET r == calls[c].result IN
            /\ r.metadata.provider = calls[c].provider
            /\ r.success => Truthy(r.data) /\ r.error = NoError
            /\ ~r.success => /\ r.error # NoError
                             /\ r.data = Undefined
                             /\ ~r.metadata.cached

\* the waits of a retry loop that made every attempt
FullBackoff == [k \in 1..DefaultMaxRetries |-> BackoffDelay(DefaultBaseDelay, k - 1)]

\* C24: a provider call that fails by a network error, a non-success HTTP
\* status or a response body that cannot be parsed is treated as transient:
\* it is retried with exponential backoff up to the configured maximum
\* before the failure is returned.
C24_TransientRetried ==
    \A c \in CallIds :
        LET call == calls[c] IN
        call.how \in {"exhausted", "unparseable"} =>
            /\ call.opCalls = DefaultMaxRetries + 1
            /\ call.delays = FullBackoff

C30_LastErrorRaised ==
    \A c \in CallIds :
        LET call == calls[c] IN
        call.how = "exhausted" =>
            /\ call.thrown = ThrownError(call.lastError)
            /\ ~call.result.success
            /\ call.result.error.message = call.lastError
            /\ call.lastError \in {UpstreamError, UpstreamTimeout}

\* the retries were used up by attempts of which the first and the final
\* one failed with different errors
C30_Witness ==
    \E c \in CallIds :
        /\ calls[c].how = "exhausted"
        /\ calls[c].firstError = UpstreamTimeout
        /\ calls[c].lastError = UpstreamError

\* C31: the retry loop makes as many retries as the provider's configuration
\* says: an operation whose every attempt failed with a non-rate-limit
\* error was invoked exactly config.retries + 1 times, config.retries being
\* API_RETRIES where it is set and 3 where it is not.
C31_ConfiguredRetries ==
    \A c \in CallIds :
        calls[c].how = "exhausted" =>
            calls[c].opCalls = createAPIConfig(calls[c].provider).retries + 1

\* C36: a provider response that was received and parsed is returned as a
\* success envelope whatever the state of the cache: a cache that already
\* holds its maximum number of keys when the result is to be stored does
\* not make the operation return a failure envelope.
C36_FullCacheNoFailure ==
    \A c \in CallIds :
        calls[c].pc = "done" /\ calls[c].received => calls[c].result.success

\* C26: a request served from a live cache entry consumes no rate-limit
\* token and makes no network call: the step that serves it leaves the
\* rate-limit window as it was, and a request whose entry is live is
\* served from the cache whatever the state of the window, an exhausted
\* one included.
C26_HitLeavesQuota ==
    [][ \A c \in CallIds :
          /\ (calls'[c] # calls[c] /\ calls'[c].how = "hit") =>
                /\ limiter' = limiter
                /\ asked' = asked
                /\ calls'[c].pc = "done"
                /\ calls'[c].opCalls = 0
                /\ calls'[c].result.success
                /\ calls'[c].result.metadata.cached
          /\ ( /\ calls[c].pc \in {"idle", "done"}
               /\ calls'[c] # calls[c]
               /\ Truthy(getCachedResponse(cache[calls'[c].provider],
                            getCacheKey(calls'[c].provider, calls'[c].op, calls'[c].req),
                            now)) ) =>
                calls'[c].how = "hit"
      ]_vars

\* a request is served from the cache while the window's quota is used up
\* and a request past it was rejected
C26_Witness ==
    \E c \in CallIds :
        LET p == calls[c].provider IN
        /\ calls[c].how = "hit"
        /\ limiter[p].expires > now
        /\ limiter[p].consumed > createAPIConfig(p).rateLimit.requests

\* C27: a cache entry is written only by a call that ends in success: a
\* call that fails (rejected by the gate, misconfigured, retries used up,
\* body not parseable) leaves the cache as it was, and what the cache
\* serves is never a failure.
C27_CacheOnlyOnSuccess ==
    [][ /\ \A p \in Clients : \A key \in DOMAIN cache'[p] :
            (key \notin DOMAIN cache[p] \/ cache'[p][key] # cache[p][key]) =>
                \E c \in CallIds :
                    /\ calls[c].pc = "inflight"
                    /\ calls'[c].how = "ok"
                    /\ calls'[c].result.success
                    /\ getCacheKey(p, calls'[c].op, calls'[c].req) = key
                    /\ cache'[p][key].v = calls'[c].result.data
        /\ \A c \in CallIds :
            /\ ( /\ calls[c].pc \in {"gate", "inflight"}
                 /\ calls'[c].pc = "done"
                 /\ ~calls'[c].result.success ) => cache' = cache
            /\ calls'[c].how = "hit" => calls'[c].result.success
      ]_vars

\* a call failed on a body that cannot be parsed while the cache holds the
\* entry of another request and none for the call's own request
C27_Witness ==
    \E c \in CallIds :
        LET p == calls[c].provider
            key == getCacheKey(p, calls[c].op, calls[c].req)
        IN /\ calls[c].how = "unparseable"
           /\ DOMAIN cache[p] # {}
           /\ key \notin DOMAIN cache[p]

----------------------------------------------------------------------------
\* One client under concurrent callers

\* the provider answers the call in flight with an analysis, or turns it
\* down (what it answers is nothing to the gate)
GateResponses ==
    { Body("json", FullPayload("perplexity", <<"d4", "d5", "d6", "d7">>, 2, 6, 6)),
      Failure(UpstreamRateLimit) }

GateAnswer(c) == \E resp \in GateResponses : NetReturn(c, resp)

NextGate ==
    \/ \E c \in ConcurrentCalls, o \in DirectOps, r \in Requests : DirectInvoke(c, o, r)
    \/ \E c \in ConcurrentCalls : AfterGate(c)
    \/ \E c \in ConcurrentCalls : GateAnswer(c)
    \/ \E d \in TickSteps : Tick(d)

SpecGate == Init /\ [][NextGate]_vars

\* the calls past the gate: admitted, and their operation not yet over
PastGate(p) ==
    {c \in CallIds : calls[c].provider = p /\ calls[c].pc \in {"inflight", "backoff"}}

\* C14: under any interleaving of concurrent calls of one client, the
\* number of requests admitted by the rate-limit gate within one window
\* never exceeds the quota N.
C14_GateQuota ==
    \A p \in Clients : asked[p].passed <= createAPIConfig(p).rateLimit.requests

\* a call of the client is in flight, the quota of the window is used up,
\* and a concurrent request of the same window was turned away
C14_Witness ==
    \E p \in Clients :
        /\ PastGate(p) # {}
        /\ asked[p].passed = RateLimitRequests
        /\ asked[p].asked > RateLimitRequests
        /\ \E c \in ConcurrentCalls :
              /\ calls[c].provider = p
              /\ calls[c].how = "rejected"
              /\ calls[c].ordinal = asked[p].asked

----------------------------------------------------------------------------
\* The router under its callers

NextRouter ==
    \/ \E g \in GenIds : GenBegin(g)
    \/ \E g \in GenIds, answer \in GenAnswers : GenSettle(g, answer)
    \/ EnableOpenAI
    \/ \E n \in RouterNames : SwitchToProvider(n)

SpecRouter == Init /\ [][NextRouter]_vars

\* the provider of the lowest priority number among the names in S
FirstByPriority(S) ==
    CHOOSE n \in S : \A m \in S : initializeProviders[n].priority
                                    <= initializeProviders[m].priority

\* C4: a generateContent call, not overlapped by another, that began with
\* at least two providers available, where the service of the first one
\* attempted failed and the service of the second could answer: the
\* attempts were the first- and the second-priority available provider P1
\* and P2, in that order; the call returned P2's content tagged with P2; it
\* left P1 unavailable with an error recorded and P2 available. The call
\* that begins next attempts P2 first and never P1.
C4_FallbackSticks ==
    \A g \in GenIds :
        LET gen == gens[g] IN
        /\ ( /\ gen.pc = "done"
             /\ gen.solo
             /\ Cardinality(gen.avail0) >= 2
             /\ Len(gen.would) >= 2
             /\ gen.would[1] = "fail"
             /\ gen.would[2] = "ok" ) =>
                LET P1 == FirstByPriority(gen.avail0)
                    P2 == FirstByPriority(gen.avail0 \ {P1})
                IN /\ gen.tried = <<P1, P2>>
                   /\ gen.result.success
                   /\ gen.result.provider = P2
                   /\ gen.result.content.by = P2
                   /\ gen.fresh => /\ ~providers[P1].available
                                   /\ providers[P1].lastError # Unset
                                   /\ providers[P2].available
        /\ ( /\ gen.pc # "idle"
             /\ gen.prev.would = <<"fail", "ok">> ) =>
                /\ gen.tried # <<>>
                /\ gen.tried[1] = gen.prev.tried[2]
                /\ \A k \in 1..Len(gen.tried) : gen.tried[k] # gen.prev.tried[1]

\* C16: a generateContent call that failed, whether it found no provider
\* available or every provider it attempted failed, raised the
\* all-providers-failed error, which carries the last error a provider
\* produced during the call.
C16_ExhaustedCarriesLast ==
    \A g \in GenIds :
        LET gen == gens[g] IN
        gen.pc = "done" /\ ~gen.result.success =>
            /\ gen.thrown = AllFailedMsg(gen.lastError)
            /\ gen.tried # <<>> => gen.lastError # Unset

\* in this step a provider call of generateContent returned through n
SucceededThrough(n) ==
    \E g \in GenIds :
        /\ gens[g].pc = "calling"
        /\ gens[g].provider = n
        /\ gens'[g].pc = "done"
        /\ gens'[g].result.success
        /\ gens'[g].result.provider = n

\* C32: each provider has one client object in the process, hence one cache
\* and one rate-limit window: the client a router provider holds is the
\* client its module exports, which the routes call directly, so that the
\* quota of the window bounds the requests of every path together.
C32_OneWindowPerProvider ==
    \A n \in DOMAIN providers :
        providers[n].client = ExportedClient(providers[n].client.class)

\* C33: within one generateContent call no provider is attempted more than
\* once, other generateContent calls running at the same time and marking
\* providers between its attempts included. (A failed attempt marks its
\* provider unavailable and the next provider is selected before the call
\* suspends again; no provider call returns, so none marks a provider
\* available.)
C33_NoProviderTwice ==
    \A g \in GenIds :
        \A i, j \in 1..Len(gens[g].tried) :
            i # j => gens[g].tried[i] # gens[g].tried[j]

\* a call of two attempts that another call, itself attempting, overlapped
C33_Witness ==
    \E g, h \in GenIds :
        /\ g # h
        /\ gens[g].pc = "done"
        /\ Len(gens[g].tried) >= 2
        /\ ~gens[g].solo
        /\ gens[h].tried # <<>>

\* every provider is unavailable and no provider call is in flight
AllDownAndQuiet ==
    /\ \A n \in RouterNames : ~providers[n].available
    /\ \A g \in GenIds : gens[g].pc # "calling"

C35_UnavailableIffError ==
    \A n \in RouterNames :
        ~providers[n].available <=> providers[n].lastError # Unset

\* a failed attempt marked claude while openai had been enabled again
C35_Witness ==
    /\ ~providers["claude"].available
    /\ providers["claude"].lastError = NotAFunction
    /\ providers["openai"].available
    /\ providers["openai"].lastError = Unset

\* C39: no router step changes a provider's priority, its client or the
\* set of providers, and a step in which an attempt on provider P failed
\* changes only P's available and lastError: every other provider is as it
\* was.
C39_RouterFrame ==
    [][/\ DOMAIN providers' = DOMAIN providers
       /\ \A n \in DOMAIN providers :
             /\ providers'[n].priority = providers[n].priority
             /\ providers'[n].client = providers[n].client
       /\ \A g \in GenIds :
             gens[g].pc = "calling" /\ Len(gens'[g].would) > Len(gens[g].would) =>
                 \A m \in RouterNames \ {gens[g].provider} :
                     providers'[m] = providers[m]
      ]_vars

\* a failed attempt on claude left gemini as it was constructed, and gemini
\* is being called
C39_Witness ==
    \E g \in GenIds :
        /\ gens[g].pc = "calling"
        /\ gens[g].tried = <<"claude", "gemini">>
        /\ providers["claude"].lastError = NotAFunction
        /\ providers["gemini"] = initializeProviders["gemini"]

C28_OnlyOnSuccess ==
    [][currentProvider' # currentProvider => SucceededThrough(currentProvider')]_vars

\* C28, amended: the router's current provider changes only as the result
\* of a successful provider call inside generateContent or of a
\* switchToProvider call that names an available provider; failed
\* attempts and every other router operation (enableOpenAI, a
\* switchToProvider call naming an unavailable provider) leave it unchanged.
C28_OnSuccessOrSwitch ==
    [][currentProvider' # currentProvider =>
          \/ SucceededThrough(currentProvider')
          \/ /\ providers[currentProvider'].available
             /\ UNCHANGED <<providers, gens, genLog>>
      ]_vars

\* the current provider is one no call returned through: a switch set it,
\* and a failed attempt through another provider left it as it was
C28_Witness ==
    /\ currentProvider = "gemini"
    /\ ~providers["claude"].available
    /\ providers["claude"].lastError # Unset

----------------------------------------------------------------------------
\* The competitor-analysis route under its callers

NextRoute ==
    \/ \E body \in RouteBodies : RouteStart(body)
    \/ \E c \in RouteCalls : AfterGate(c)
    \/ \E c \in RouteCalls : Answer(c)
    \/ \E c \in RouteCalls : BackoffDone(c)
    \/ RouteJoin
    \/ RouteMerge

SpecRoute == Init /\ [][NextRoute]_vars

----------------------------------------------------------------------------
\* Claims about the competitor-analysis route (SpecRoute)

\* the handler answered a request that passed validation
Answered200 == route.pc = "done" /\ route.response.status = 200
AnsweredValid == route.pc = "done" /\ ~InvalidBody(route.body)

FanOut == {"openai", "perplexity"}
Succeeded == {q \in RouteCalls : calls[q].pc = "done" /\ calls[q].result.success}

Domains(competitors) == [i \in 1..Len(competitors) |-> competitors[i].domain]

\* C5: a request one of whose provider calls succeeded is answered with a
\* non-error result, whose competitors all come from providers that
\* succeeded; an error result is given only when every provider call failed.
C5_PartialTolerance ==
    AnsweredValid =>
        /\ Succeeded # {} =>
              /\ route.response.status = 200
              /\ route.response.success
              /\ \A i \in 1..Len(route.response.data.competitors) :
                    route.response.data.competitors[i].rest \in Succeeded
        /\ ~route.response.success => Succeeded = {}

\* C6: a request both of whose fan-out calls failed is answered with an
\* error result: status 5xx, success = false, no data, and the error of
\* one of the two providers' envelopes; Claude is not called.
C6_TotalFailure ==
    ( /\ AnsweredValid
      /\ \A q \in FanOut : calls[q].pc = "done" /\ ~calls[q].result.success ) =>
        /\ route.response.status \in 500..599
        /\ ~route.response.success
        /\ route.response.data = Undefined
        /\ route.response.error \in {calls[q].result.error : q \in FanOut}
        /\ route.response.error.code = "COMPETITOR_ANALYSIS_FAILED"
        /\ calls["claude"].pc = "idle"

C6_Witness ==
    /\ AnsweredValid
    /\ calls["openai"].how = "exhausted"
    /\ calls["perplexity"].how = "unparseable"
    /\ route.response.status = 500
    /\ route.response.error = calls["openai"].result.error

\* C7: when OpenAI (primary) and Perplexity (secondary) both gave a
\* competitor list, the competitors of the result are, in order, the
\* entries of primary ++ secondary whose domain did not occur earlier in
\* that concatenation, cut to the first 5.
C7_MergeDedupeCap ==
    ( /\ Answered200
      /\ calls["openai"].result.success
      /\ calls["openai"].result.data.shape = "full"
      /\ calls["perplexity"].result.success
      /\ calls["perplexity"].result.data.shape = "full" ) =>
        LET combined == calls["openai"].result.data.competitors
                          \o calls["perplexity"].result.data.competitors
            firsts == {i \in 1..Len(combined) :
                          \A j \in 1..(i - 1) : combined[j].domain # combined[i].domain}
            r == route.response.data.competitors
        IN /\ Len(r) = IF Cardinality(firsts) < 5 THEN Cardinality(firsts) ELSE 5
           /\ \A k \in 1..Len(r) :
                 \E i \in firsts :
                    /\ Cardinality({j \in firsts : j < i}) = k - 1
                    /\ r[k].domain = combined[i].domain
                    /\ r[k].rest = combined[i].rest

\* 4 + 4 competitors sharing d4, 7 unique domains: 5 come out, d4 once, as
\* the primary gave it
C7_Witness ==
    /\ Answered200
    /\ calls["openai"].result.success
    /\ Domains(calls["openai"].result.data.competitors) = <<"d1", "d2", "d3", "d4">>
    /\ calls["perplexity"].result.success
    /\ Domains(calls["perplexity"].result.data.competitors) = <<"d4", "d5", "d6", "d7">>
    /\ Domains(route.response.data.competitors) = <<"d1", "d2", "d3", "d4", "d5">>
    /\ route.response.data.competitors[4].rest = "openai"

\* the providers in the order the merge processes their outcomes
MergeRank(by) == CASE by = "openai" -> 1 [] by = "perplexity" -> 2 [] OTHER -> 3

\* the providers whose entries seq holds come in the order of the merge
InMergeOrder(seq, by(_)) ==
    \A i, j \in 1..Len(seq) : i < j => MergeRank(by(seq[i])) <= MergeRank(by(seq[j]))

\* C29: the merged result does not depend on the order in which the
\* concurrent provider calls complete: whichever of the two calls settled
\* first, the result's lists hold the primary's (OpenAI's) entries before
\* the secondary's (Perplexity's), and before Claude's, and its insights
\* are those of primary ++ secondary, cut to the cap.
C29_OrderIndependent ==
    ( /\ Answered200
      /\ \A q \in FanOut : calls[q].result.success /\ calls[q].result.data.shape = "full" ) =>
        LET primary == calls["openai"].result.data
            secondary == calls["perplexity"].result.data
            merged == route.response.data
            ofCompetitor(x) == x.rest
            ofOpportunity(x) == x.topic.by
            ofInsight(x) == x.by
        IN /\ InMergeOrder(merged.competitors, ofCompetitor)
           /\ InMergeOrder(merged.opportunities, ofOpportunity)
           /\ InMergeOrder(merged.marketInsights, ofInsight)
           /\ merged.competitors[1].domain = primary.competitors[1].domain
           /\ merged.competitors[1].rest = "openai"
           /\ merged.marketInsights =
                 Take(primary.marketInsights \o secondary.marketInsights, MaxInsights)

\* Perplexity's call settled before OpenAI's, and the result holds
\* entries of both, OpenAI's first
C29_Witness ==
    /\ Answered200
    /\ calls["openai"].how = "ok"
    /\ calls["openai"].settledAfter = 1
    /\ calls["perplexity"].how = "ok"
    /\ calls["perplexity"].settledAfter = 0
    /\ route.response.data.competitors[1].rest = "openai"
    /\ \E i \in 1..Len(route.response.data.competitors) :
          route.response.data.competitors[i].rest = "perplexity"

\* how many times x occurs in seq
Count(seq, x) == Cardinality({k \in 1..Len(seq) : seq[k] = x})

\* the data from which the provider's entries come
Returned(by) ==
    IF by = "openai" THEN route.openaiResponse.data ELSE route.perplexityResponse.data

\* C37: in a successful merged result no provider's opportunity or
\* market insight occurs more often than that provider returned it; in
\* particular, where OpenAI's call failed and Perplexity's data is the base
\* of the merge, Perplexity's entries are not in the result twice.
C37_NoEntryTwice ==
    Answered200 =>
        LET data == route.response.data IN
        /\ \A k \in 1..Len(data.marketInsights) :
              LET x == data.marketInsights[k] IN
              Count(data.marketInsights, x) <= Count(Returned(x.by).marketInsights, x)
        /\ \A k \in 1..Len(data.opportunities) :
              LET x == data.opportunities[k] IN
              x.topic.by # "claude" =>
                  Count(data.opportunities, x) <= Count(Returned(x.topic.by).opportunities, x)

\* C40: every opportunity of a successful result, those made from Claude's
\* content gaps by position included, has a difficulty and a potential
\* within 0..100, however many gaps Claude reported.
C40_ScoresInRange ==
    Answered200 =>
        \A k \in 1..Len(route.response.data.opportunities) :
            LET x == route.response.data.opportunities[k] IN
            /\ x.difficulty \in 0..100
            /\ x.potential \in 0..100

\* C8: every successful result has at most 5 competitors, 10
\* opportunities, 10 market insights, and 8 content gaps per competitor.
C8_OutputCaps ==
    Answered200 =>
        /\ Len(route.response.data.competitors) <= 5
        /\ Len(route.response.data.opportunities) <= 10
        /\ Len(route.response.data.marketInsights) <= 10
        /\ \A i \in 1..Len(route.response.data.competitors) :
              Len(route.response.data.competitors[i].contentGaps) <= 8

\* C9: the confidence of a successful result is 85 when one provider
\* succeeded, 10 more for each further provider that succeeded, and at
\* most 100.
C9_ConfidenceByCount ==
    Answered200 =>
        LET n == Cardinality(Succeeded)
            expected == 85 + 10 * (n - 1)
        IN route.response.confidence = IF expected > 100 THEN 100 ELSE expected

\* C10: past the fan-out (merging, or answered), both fan-out calls have
\* settled and the handler holds each one's own outcome; while one of them
\* is pending no response exists.
C10_AllSettledBeforeMerge ==
    /\ (route.pc \in {"gaps", "done"} /\ ~InvalidBody(route.body)) =>
          /\ \A q \in FanOut : calls[q].pc = "done"
          /\ route.openaiResponse = calls["openai"].result
          /\ route.perplexityResponse = calls["perplexity"].result
    /\ (\E q \in FanOut : calls[q].pc \notin {"idle", "done"}) =>
          /\ route.pc = "fanout"
          /\ route.response = NoResponse

\* OpenAI succeeded at once, Perplexity failed after all its retries, and
\* the answer was built after both
C10_Witness ==
    /\ Answered200
    /\ calls["openai"].how = "ok"
    /\ calls["openai"].opCalls = 1
    /\ calls["perplexity"].how = "exhausted"
    /\ calls["perplexity"].opCalls = 4

\* C19: the first request with given inputs that is answered with a result
\* has metadata.cached = false, and a request with the same inputs that
\* comes right after one answered with a result (within the TTL) has
\* metadata.cached = true.
C19_CachedOnRepeat ==
    Answered200 =>
        /\ route.body \notin route.produced => ~route.response.cached
        /\ (route.prev.status = 200 /\ route.prev.body = route.body) =>
              route.response.cached

\* C20: when validateEnvironment() reports valid = true, no call of a
\* provider client fails config validation for a missing API key.
C20_ValidEnvironment ==
    validateEnvironment.valid =>
        \A c \in CallIds :
            calls[c].how = "invalid" => calls[c].thrown.code # "MISSING_API_KEY"

----------------------------------------------------------------------------
\* The content endpoints under their callers

\* the providers' services fail
ContentAnswers == {Refused(ProviderFailed)}

NextContent ==
    \/ \E h \in ContentEndpoints, body \in ContentBodies : ContentPost(h, body)
    \/ \E g \in GenIds, answer \in ContentAnswers : GenSettle(g, answer)
    \/ \E h \in ContentEndpoints : ContentSettle(h)
    \/ EnableOpenAI

SpecContent == Init /\ [][NextContent]_vars

----------------------------------------------------------------------------
\* Claims about the endpoints' answers (SpecContent)

\* the answers the POST handlers have given
PostResponses ==
    {route.response} \cup {handlers[h].response : h \in ContentEndpoints}

\* the error has a code, a message and a retryable flag
CarriesCodeMessageFlag(error) ==
    /\ {"code", "message", "retryable"} \subseteq DOMAIN error
    /\ error.code # "none"
    /\ error.message.text # ""
    /\ error.retryable \in BOOLEAN

\* C12: every error response of the three endpoints, for validation
\* failures and provider failures alike, carries a machine-readable code, a
\* human-readable message and a retryable flag.
C12_ErrorShape ==
    \A r \in PostResponses : r.status >= 400 => CarriesCodeMessageFlag(r.error)

\* the body lacks a required field or has one that is malformed
Malformed(h, body) ==
    \/ ~body.parses
    \/ MissingFields(h, body)
    \/ h = "enhance-content" /\ body.mode \notin EnhanceModes

\* the answer is a rejection: 4xx, with retryable = false
Rejection(response) ==
    /\ response.status \in 400..499
    /\ "retryable" \in DOMAIN response.error
    /\ ~response.error.retryable

\* C18: a request whose required input is missing or malformed (a mode of
\* the enhance endpoint outside readability, human, personal included) is
\* rejected at once with a 4xx status and retryable = false, no provider
\* is called, and router, cache and rate-limit state stay as they were.
C18_RejectInvalid ==
    [][ /\ \A h \in ContentEndpoints :
            ( /\ handlers[h].pc \in {"idle", "done"}
              /\ handlers'[h] # handlers[h]
              /\ Malformed(h, handlers'[h].body) ) =>
                /\ handlers'[h].pc = "done"
                /\ Rejection(handlers'[h].response)
                /\ gens' = gens
                /\ UNCHANGED <<providers, currentProvider, cache, limiter>>
        /\ ( /\ route.pc \in {"idle", "done"}
             /\ route' # route
             /\ InvalidBody(route'.body) ) =>
                /\ route'.pc = "done"
                /\ Rejection(route'.response)
                /\ \A c \in RouteCalls : calls'[c].pc = "idle"
                /\ UNCHANGED <<providers, currentProvider, cache, limiter>>
      ]_vars

----------------------------------------------------------------------------
\* The health endpoints under their callers

NextHealth ==
    \/ CompetitorHealth
    \/ \E h \in ContentEndpoints : ContentHealth(h)
    \/ GenBegin("g1")
    \/ \E answer \in ContentAnswers : GenSettle("g1", answer)
    \/ EnableOpenAI
    \/ \E d \in TickSteps : Tick(d)

SpecHealth == Init /\ [][NextHealth]_vars

\* C38 as stated: every health check consumes one point of its client's
\* window, and reports a failure when the window is exhausted.
C38_EveryCheckConsumes ==
    [][CompetitorHealth /\ RequiredEnvVars \subseteq env =>
          \A p \in Clients :
              /\ limiter'[p] = consume(p, limiter[p], now)
              /\ LimitExceeded(p, limiter'[p]) => ~health'.services[p]
      ]_vars

\* C38: a health check of a client whose configuration is valid consumes
\* one point of the client's window and succeeds exactly when the window
\* is not exhausted by it (so the check after N checks of one window fails,
\* the configuration being valid); a health check of a client whose
\* configuration is invalid fails and consumes nothing.
C38_ValidCheckConsumes ==
    [][CompetitorHealth /\ RequiredEnvVars \subseteq env =>
          \A p \in Clients :
              IF validateConfig(p) = NoThrow
              THEN /\ limiter'[p] = consume(p, limiter[p], now)
                   /\ health'.services[p] <=> ~LimitExceeded(p, limiter'[p])
              ELSE /\ limiter'[p] = limiter[p]
                   /\ ~health'.services[p]
      ]_vars

\* the health check after N of one window failed for a client with a valid
\* configuration, and the checks of a misconfigured client consumed nothing
C38_Witness ==
    /\ health.endpoint = "competitor"
    /\ health.status = 503
    /\ validateConfig("openai") = NoThrow
    /\ limiter["openai"].consumed = RateLimitRequests + 1
    /\ ~health.services["openai"]
    /\ validateConfig("perplexity") # NoThrow
    /\ limiter["perplexity"] = NoLimit

\* C15: a health endpoint's answer reports a boolean availability per
\* provider; its status is 200 exactly when every provider is reported
\* healthy, and 503 in every other case.
C15_HealthStatus ==
    health.endpoint # "none" =>
        /\ DOMAIN health.services # {}
        /\ health.status = 200 <=> \A n \in DOMAIN health.services : health.services[n]
        /\ health.status # 200 => health.status = 503

----------------------------------------------------------------------------
\* The scores under the analyses of two providers

NextScores ==
    \/ \E reports \in [Analysts -> Analyses] : AnalysisRequest(reports)
    \/ \E n \in Analysts : ScoreAnalysis(n)

SpecScores == Init /\ [][NextScores]_vars

\* the provider's analysis carries a number for the category
ReportsNumber(n, category) ==
    LET entry == scoring.reports[n][category]
    IN entry.kind # "absent" /\ entry.score \in 1..100

====
